---- MODULE Spec2Model ----
(***************************************************************************)
(* Count Sketch over a discretized stream (count-sketch-code.py).          *)
(*                                                                         *)
(* Two threads share the globals: Spark's streaming job thread, which runs *)
(* process_batch on one RDD at a time (pc is its position), and the main   *)
(* thread, which waits on stopping_condition, stops the engine gracefully  *)
(* and computes the statistics (mainPc is its position).                   *)
(* histogram is the dict as a function on its keys; the order of its keys  *)
(* (insertion order, which collectAsMap leaves open) is drawn where the    *)
(* code depends on it, at the sort of line 231.  K, which the statistics  *)
(* alone read, is drawn where they start and kept in the report.          *)
(*                                                                         *)
(* An RDD is a bag of items: a function from the item to its number of     *)
(* occurrences.  Items are the integers int(x) decodes the tokens to.      *)
(* Numbers that numpy holds as halves (np.median of an even number of      *)
(* values) are kept doubled: approx_histogram holds twice the median.      *)
(***************************************************************************)
EXTENDS Integers, Sequences, FiniteSets, TLC

\* p = 8191, the modulus of the hash functions
p == 8191

\* THRESHOLD = 10000000 in the source; the model runs it at a small scale
THRESHOLD == 3

\* the items of the stream are 0..MaxItem
MaxItem == 5

\* an RDD holds at most MaxBatch items
MaxBatch == 2

\* K is drawn from 0..MaxK
MaxK == 2

Universe == 0..MaxItem

\* [left, right] as the command line gives them: an item on each side is left out
Intervals == {<<1, MaxItem - 1>>}

\* a numpy array from its elements: indices start at 0
Arr(t) == [i \in 0..(Len(t) - 1) |-> t[i + 1]]

\* draws of np.random.randint for a (in [1, p-2]) and b (in [0, p-2]), with D and W
HashDraws ==
  { [D |-> 1, W |-> 1, a |-> Arr(<<1, 1>>), b |-> Arr(<<0, 0>>)],
    [D |-> 1, W |-> 3, a |-> Arr(<<1, 2>>), b |-> Arr(<<0, 1>>)],
    [D |-> 2, W |-> 2, a |-> Arr(<<1, 4096, 4096, 1>>), b |-> Arr(<<0, 1, 0, 1>>)],
    [D |-> 3, W |-> 2, a |-> Arr(<<1, 4096, 3, 1, 4096, 2>>),
                       b |-> Arr(<<0, 0, 1, 0, 1, 1>>)] }

VARIABLES
  D, W, left, right,      \* the command line
  a, b,                   \* the parameters of the hash functions
  streamLength,           \* [0]: items read, [1]: items read inside [left, right]
  histogram,              \* dict item -> true frequency
  sketch,                 \* D x W counters
  stopping_condition,     \* threading.Event
  pc, batch,              \* process_batch: its position and, in a call, its RDD
  received,               \* the items of every RDD process_batch went through
  ignored,                \* some call returned at the threshold check
  mainPc,                 \* the main thread's position
  approx_histogram,       \* dict item -> twice the median estimate
  desc_histogram,         \* the (item, true frequency) pairs, sorted
  report                  \* what the statistics step computed and how it ended

vars == <<D, W, left, right, a, b, streamLength, histogram, sketch,
          stopping_condition, pc, batch, received, ignored, mainPc,
          approx_histogram, desc_histogram, report>>

config == <<D, W, left, right, a, b>>
ingestion == <<streamLength, histogram, sketch>>
statistics == <<approx_histogram, desc_histogram, report>>

----------------------------------------------------------------------------
\* Bags of items

EmptyBag == [x \in Universe |-> 0]

RECURSIVE SumUpTo(_, _)
\* f[0] + ... + f[n]
SumUpTo(f, n) == IF n < 0 THEN 0 ELSE f[n] + SumUpTo(f, n - 1)

\* RDD.count()
Count(rdd) == SumUpTo(rdd, MaxItem)

Support(rdd) == {x \in Universe : rdd[x] > 0}

RECURSIVE BagsUpTo(_)
\* the bags of at most n items
BagsUpTo(n) ==
  IF n = 0 THEN {EmptyBag}
  ELSE LET smaller == BagsUpTo(n - 1)
       IN smaller \cup {[r EXCEPT ![x] = @ + 1] : r \in smaller, x \in Universe}

\* the RDDs of the stream
Batches == BagsUpTo(MaxBatch)

----------------------------------------------------------------------------
\* Hash functions

\* h: U -> {0, ..., W-1}
h_hash(x, aa, bb) == ((aa * x + bb) % p) % W

\* g: U -> {-1, 1}
g_hash(x, aa, bb) ==
  LET hash_value == ((aa * x + bb) % p) % 2 IN 2 * hash_value - 1

----------------------------------------------------------------------------
\* count_sketch

\* map and reduceByKey of row j, one occurrence of an item at a time: the dict
\* {hj(x): sum of gj(x)}, its keys the buckets some item of the RDD maps to
RECURSIVE ReduceByKey(_, _, _)
ReduceByKey(rdd, j, acc) ==
  IF Support(rdd) = {} THEN acc
  ELSE LET x == CHOOSE y \in Support(rdd) : TRUE
           key == h_hash(x, a[j], b[j])
           val == g_hash(x, a[j + D], b[j + D])
           rest == [rdd EXCEPT ![x] = @ - 1]
       IN IF key \in DOMAIN acc
          THEN ReduceByKey(rest, j, [acc EXCEPT ![key] = @ + val])
          ELSE ReduceByKey(rest, j, [k \in DOMAIN acc \cup {key} |->
                                       IF k = key THEN val ELSE acc[k]])

sketch_dict(f_batch, j) == ReduceByKey(f_batch, j, <<>>)

OverwriteSketch(sk, f_batch) ==
  [j \in 0..(D - 1) |->
     LET update == sketch_dict(f_batch, j)
     IN [key \in 0..(W - 1) |->
           IF key \in DOMAIN update THEN update[key] ELSE sk[j][key]]]

\* the sketch after count_sketch(f_batch)
count_sketch(sk, f_batch) ==
  [j \in 0..(D - 1) |->
     LET update == sketch_dict(f_batch, j)
     IN [key \in 0..(W - 1) |->
           IF key \in DOMAIN update THEN sk[j][key] + update[key] ELSE sk[j][key]]]

----------------------------------------------------------------------------
\* process_batch

FilterNoUpper(rdd) == [x \in Universe |-> IF x >= left THEN rdd[x] ELSE 0]

\* line 114: batch.map(int).filter(left <= x <= right)
filtered_batch(rdd) ==
  [x \in Universe |-> IF (x >= left) /\ (x <= right) THEN rdd[x] ELSE 0]

HistogramOverwritten(h, batch_items) ==
  [key \in DOMAIN h \cup Support(batch_items) |->
     IF batch_items[key] > 0 THEN batch_items[key] ELSE h[key]]

\* lines 122-126: the histogram after the loop over the dict batch_items
HistogramAfter(h, batch_items) ==
  [key \in DOMAIN h \cup Support(batch_items) |->
     IF key \notin DOMAIN h THEN batch_items[key] ELSE h[key] + batch_items[key]]

SkipsAboveThreshold == streamLength[0] > THRESHOLD

\* line 108
SkipsAtThreshold == streamLength[0] >= THRESHOLD

StopsAboveThreshold == streamLength[0] > THRESHOLD

\* line 132
StopsAtThreshold == streamLength[0] >= THRESHOLD

\* lines 106-109 at the threshold: the call returns at once, whatever its RDD
IgnoreBatch ==
  /\ pc = "idle"
  /\ mainPc \in {"wait", "stop"}
  /\ SkipsAtThreshold
  /\ ignored' = TRUE
  /\ UNCHANGED <<config, ingestion, stopping_condition, pc, batch, received, mainPc,
                 statistics>>

\* a call may start, and is below the threshold at line 108
Admits ==
  /\ pc = "idle"
  /\ mainPc \in {"wait", "stop"}
  /\ ~SkipsAtThreshold

\* lines 106-110 below the threshold, on the RDD rdd
TakeBatch(rdd) ==
  /\ streamLength' = [streamLength EXCEPT ![0] = @ + Count(rdd)]
  /\ batch' = rdd
  /\ received' = [x \in Universe |-> received[x] + rdd[x]]
  /\ pc' = "filter"
  /\ UNCHANGED <<config, histogram, sketch, stopping_condition, ignored, mainPc,
                 statistics>>

BeginBatchSignalling ==
  /\ Admits
  /\ \E rdd \in Batches :
       /\ streamLength' = [streamLength EXCEPT ![0] = @ + Count(rdd)]
       /\ stopping_condition' = (streamLength[0] + Count(rdd) >= THRESHOLD)
       /\ batch' = rdd
       /\ received' = [x \in Universe |-> received[x] + rdd[x]]
       /\ pc' = "filter"
       /\ UNCHANGED <<config, histogram, sketch, ignored, mainPc, statistics>>

\* Spark hands the next RDD of the stream to process_batch
BeginBatch == Admits /\ \E rdd \in Batches : TakeBatch(rdd)

\* lines 114-129: the counts, the histogram and the sketch take the RDD in
ProcessBatch ==
  /\ pc = "filter"
  /\ pc' = "signal"
  /\ LET f_batch == filtered_batch(batch) IN
       /\ streamLength' = [streamLength EXCEPT ![1] = @ + Count(f_batch)]
       /\ histogram' = HistogramAfter(histogram, f_batch)
       /\ sketch' = count_sketch(sketch, f_batch)
  /\ UNCHANGED <<config, stopping_condition, batch, received, ignored, mainPc, statistics>>

\* lines 132-133, and the call returns
SetStoppingCondition ==
  /\ pc = "signal"
  /\ stopping_condition' = (stopping_condition \/ StopsAtThreshold)
  /\ pc' = "idle"
  /\ batch' = EmptyBag
  /\ UNCHANGED <<config, ingestion, received, ignored, mainPc, statistics>>

----------------------------------------------------------------------------
\* The main thread

\* line 211: stopping_condition.wait() returns
WaitReturns ==
  /\ mainPc = "wait"
  /\ stopping_condition
  /\ mainPc' = "stop"
  /\ UNCHANGED <<config, ingestion, stopping_condition, pc, batch, received, ignored,
                 statistics>>

\* line 217: ssc.stop(False, True) returns once the outstanding call is done
StopReturns ==
  /\ mainPc = "stop"
  /\ pc = "idle"
  /\ mainPc' = "statistics"
  /\ UNCHANGED <<config, ingestion, stopping_condition, pc, batch, received, ignored,
                 statistics>>

----------------------------------------------------------------------------
\* The statistics, lines 224-300

RECURSIVE SortedValues(_)
\* the values of the sequence s in ascending order
SortedValues(s) ==
  IF Len(s) = 0 THEN <<>>
  ELSE LET i == CHOOSE i \in 1..Len(s) : \A k \in 1..Len(s) : s[i] <= s[k]
       IN <<s[i]>> \o SortedValues([k \in 1..(Len(s) - 1) |-> IF k < i THEN s[k] ELSE s[k + 1]])

\* twice np.median(s): the middle value, or the mean of the two middle values
Median2(s) ==
  LET v == SortedValues(s)
      n == Len(s)
  IN IF n % 2 = 1 THEN 2 * v[(n + 1) \div 2] ELSE v[n \div 2] + v[n \div 2 + 1]

EstimatesWithoutSign(u) ==
  [i \in 1..D |-> LET j == i - 1 IN sketch[j][h_hash(u, a[j], b[j])]]

\* lines 225-227: the D estimates of item u
approx_freq_list(u) ==
  [i \in 1..D |->
     LET j == i - 1
     IN g_hash(u, a[j + D], b[j + D]) * sketch[j][h_hash(u, a[j], b[j])]]

\* lines 224-228
ApproxHistogram == [u \in DOMAIN histogram |-> Median2(approx_freq_list(u))]

RECURSIVE DescOrders(_, _)
\* line 231: sorted(histogram.items(), key = frequency, reverse = True). The sort is
\* stable, so items of equal frequency keep the order of the dict, which is any order
DescOrders(h, S) ==
  IF S = {} THEN {<<>>}
  ELSE UNION {{<<(<<x, h[x]>>)>> \o s : s \in DescOrders(h, S \ {x})} :
              x \in {y \in S : \A z \in S : h[y] >= h[z]}}

\* desc_histogram[i] of Python: i in -n..n-1, a negative i counting from the end
InRange(desc, i) == (-Len(desc) <= i) /\ (i < Len(desc))
At(desc, i) == IF i >= 0 THEN desc[i + 1] ELSE desc[Len(desc) + i + 1]

\* |true_freq - approx_freq| / true_freq as <<numerator, denominator>>
RelativeError(true_freq, approx2) ==
  <<IF 2 * true_freq >= approx2 THEN 2 * true_freq - approx2 ELSE approx2 - 2 * true_freq,
    2 * true_freq>>

\* the locals of the statistics step before line 245
StartOfReport(K) ==
  [K |-> K, outcome |-> "running", count |-> 1, bound |-> FALSE, true_freq |-> 0, approx_freq |-> 0,
   printed |-> <<>>, avg_error_list |-> <<>>, F2_list |-> <<(<<>>), (<<>>)>>, reads |-> {}]

\* one more (true_freq ** 2, approx_freq ** 2) on the two lists
F2Appended(st, t, a2) ==
  <<Append(st.F2_list[1], t * t), Append(st.F2_list[2], a2 * a2)>>

RECURSIVE TopK(_, _, _, _, _)
\* lines 248-255 (279-284): the loop over k in 0..K-1, from k on
TopK(K, desc, approx, st, k) ==
  IF k >= K THEN st
  ELSE IF ~InRange(desc, k)
  THEN [st EXCEPT !.outcome = "IndexError", !.reads = @ \cup {k}]
  ELSE LET item == At(desc, k)[1]
           t == At(desc, k)[2]
           a2 == approx[item]
       IN TopK(K, desc, approx,
               [st EXCEPT !.reads = @ \cup {k},
                          !.bound = TRUE, !.true_freq = t, !.approx_freq = a2,
                          !.printed = IF K <= 20 THEN Append(@, <<item, t, a2>>) ELSE @,
                          !.avg_error_list = Append(@, RelativeError(t, a2)),
                          !.F2_list = F2Appended(st, t, a2)],
               k + 1)

RECURSIVE TieLoop(_, _, _, _)
\* lines 257-266 (286-293): the while loop
TieLoop(K, desc, approx, st) ==
  IF st.outcome # "running" THEN st
  ELSE IF ~InRange(desc, K - 1)
  THEN [st EXCEPT !.outcome = "IndexError", !.reads = @ \cup {K - 1}]
  ELSE IF ~InRange(desc, K - 1 + st.count)
  THEN [st EXCEPT !.outcome = "IndexError", !.reads = @ \cup {K - 1, K - 1 + st.count}]
  ELSE IF approx[At(desc, K - 1)[1]] = approx[At(desc, K - 1 + st.count)[1]]
  THEN LET count == st.count + 1
           seen == st.reads \cup {K - 1, K - 1 + st.count, K + count}
       IN IF ~InRange(desc, K + count)
          THEN [st EXCEPT !.outcome = "IndexError", !.count = count, !.reads = seen]
          ELSE LET item == At(desc, K + count)[1]
                   t == At(desc, K + count)[2]
                   a2 == approx[item]
               IN TieLoop(K, desc, approx,
                          [st EXCEPT !.count = count, !.reads = seen,
                                     !.bound = TRUE, !.true_freq = t, !.approx_freq = a2,
                                     !.printed = IF K <= 20 THEN Append(@, <<item, t, a2>>)
                                                 ELSE @,
                                     !.avg_error_list = Append(@, RelativeError(t, a2))])
  ELSE [st EXCEPT !.reads = @ \cup {K - 1, K - 1 + st.count}]

RECURSIVE Remaining(_, _, _)
\* lines 268-270 (295-297): the loop over k in K..len(histogram)-1, from k on
Remaining(st, k, n) ==
  IF st.outcome # "running" \/ k >= n THEN st
  ELSE IF ~st.bound THEN [st EXCEPT !.outcome = "NameError"]
  ELSE Remaining([st EXCEPT !.F2_list = F2Appended(st, st.true_freq, st.approx_freq)],
                 k + 1, n)

RECURSIVE SumSeq(_)
SumSeq(s) == IF Len(s) = 0 THEN 0 ELSE Head(s) + SumSeq(Tail(s))

\* lines 272-273 (299-300): the two F2 as <<numerator, denominator>>; approx_freq is
\* kept doubled, so its squares are four times the squares of the code
Printed(st) ==
  IF st.outcome # "running" THEN st @@ [F2 |-> <<0, 0>>, F2Estimate |-> <<0, 0>>]
  ELSE IF streamLength[1] = 0
  THEN [st EXCEPT !.outcome = "ZeroDivisionError"] @@ [F2 |-> <<0, 0>>, F2Estimate |-> <<0, 0>>]
  ELSE [st EXCEPT !.outcome = "ok"]
       @@ [F2 |-> <<SumSeq(st.F2_list[1]), streamLength[1] * streamLength[1]>>,
           F2Estimate |-> <<SumSeq(st.F2_list[2]), 4 * streamLength[1] * streamLength[1]>>]

\* lines 245-300 for K = int(sys.argv[5]), on the ranking desc and the estimates approx
Report(K, desc, approx) ==
  Printed(Remaining(TieLoop(K, desc, approx, TopK(K, desc, approx, StartOfReport(K), 0)),
                    K, Len(desc)))

NoReport == [K |-> 0, outcome |-> "none"]

\* lines 224-300
Statistics ==
  /\ mainPc = "statistics"
  /\ LET approx == ApproxHistogram IN
       /\ approx_histogram' = approx
       /\ \E k \in 0..MaxK, desc \in DescOrders(histogram, DOMAIN histogram) :
            /\ desc_histogram' = desc
            /\ report' = Report(k, desc, approx)
  /\ mainPc' = "done"
  /\ UNCHANGED <<config, ingestion, stopping_condition, pc, batch, received, ignored>>

----------------------------------------------------------------------------

Init ==
  /\ \E d \in HashDraws :
       /\ D = d.D
       /\ W = d.W
       /\ a = d.a
       /\ b = d.b
       /\ sketch = [j \in 0..(d.D - 1) |-> [c \in 0..(d.W - 1) |-> 0]]
  /\ \E i \in Intervals : left = i[1] /\ right = i[2]
  /\ streamLength = [i \in 0..1 |-> 0]
  /\ histogram = <<>>
  /\ stopping_condition = FALSE
  /\ pc = "idle"
  /\ batch = EmptyBag
  /\ received = EmptyBag
  /\ ignored = FALSE
  /\ mainPc = "wait"
  /\ approx_histogram = <<>>
  /\ desc_histogram = <<>>
  /\ report = NoReport

Next ==
  \/ IgnoreBatch
  \/ BeginBatch
  \/ ProcessBatch
  \/ SetStoppingCondition
  \/ WaitReturns
  \/ StopReturns
  \/ Statistics

Spec == Init /\ [][Next]_vars

\* a call on an RDD that is not empty has started
NonEmptyBatchTaken == pc = "filter" /\ Count(batch) > 0

\* The streaming thread and the main thread are scheduled, and RDDs that are not empty
\* keep arriving. The two conditions on BeginBatch and ProcessBatch are fairness
\* conditions written on the states: ProcessBatch is enabled exactly at pc = "filter"
\* and leaves it (weak fairness); BeginBatch on an RDD that is not empty is enabled
\* exactly when Admits holds and leads to NonEmptyBatchTaken (strong fairness)
LiveSpec ==
  /\ Spec
  /\ WF_vars(SetStoppingCondition)
  /\ WF_vars(WaitReturns)
  /\ []<>(pc # "filter")
  /\ (<>[](~Admits) \/ []<>NonEmptyBatchTaken)

----------------------------------------------------------------------------
\* What the claims speak of

Abs(n) == IF n >= 0 THEN n ELSE -n

InInterval(x) == (left <= x) /\ (x <= right)

\* the occurrences of item x that process_batch admitted
Admitted == [x \in Universe |-> IF InInterval(x) THEN received[x] ELSE 0]

\* the sum of g_j(x) over the admitted occurrences x with h_j(x) = c
SignedSum(j, c) ==
  SumUpTo([x \in Universe |->
             IF InInterval(x) /\ h_hash(x, a[j], b[j]) = c
             THEN received[x] * g_hash(x, a[j + D], b[j + D]) ELSE 0],
          MaxItem)

ZeroSketch == [j \in 0..(D - 1) |-> [c \in 0..(W - 1) |-> 0]]

Rows == 0..(D - 1)
Cols == 0..(W - 1)

\* C1: after any sequence of batches, for as long as batches may come, the sketch is
\* the sketch of one count_sketch over all of them together, and each cell is the sum
\* of g_j(x) over the admitted occurrences x with h_j(x) = c
C1_BatchesAccumulate ==
  (pc \in {"idle", "signal"} /\ mainPc \in {"wait", "stop"}) =>
    /\ sketch = count_sketch(ZeroSketch, Admitted)
    /\ \A j \in Rows : \A c \in Cols : sketch[j][c] = SignedSum(j, c)

\* two batches or more went in, the last one adding to an item seen before
C1_Witness ==
  /\ pc = "signal"
  /\ \E x \in Universe :
       /\ InInterval(x)
       /\ batch[x] = 1
       /\ received[x] >= 2
       /\ \E j \in Rows : \E c \in Cols : Abs(sketch[j][c]) >= 2

SumSquares(f) ==
  SumUpTo([x \in Universe |-> IF x \in DOMAIN f THEN f[x] * f[x] ELSE 0], MaxItem)

\* C2: the reported F2 is the sum of the squares of the true frequencies of all the
\* distinct items over totalAdmitted squared, and the F2 estimate the same sum of the
\* estimated frequencies, each item with its own pair
C2_F2OverAllItems ==
  report.outcome = "ok" =>
    /\ report.F2 = <<SumSquares(histogram), streamLength[1] * streamLength[1]>>
    /\ report.F2Estimate =
         <<SumSquares(approx_histogram), 4 * streamLength[1] * streamLength[1]>>

\* how many items ranked after the K-th have the K-th item's estimate, in a row
TieRun(K, desc, approx) ==
  LET n == Len(desc)
      same(i) == approx[desc[i][1]] = approx[desc[K][1]]
  IN Cardinality({r \in 1..(n - K) : \A i \in (K + 1)..(K + r) : same(i)})

\* C3: the reported items are the items of ranks 1..K and then those of ranks K+1,
\* K+2, ... for as long as the estimate equals that of the K-th
C3_TieExtension ==
  (report.outcome = "ok" /\ report.K >= 1) =>
    LET K == report.K
        r == TieRun(K, desc_histogram, approx_histogram)
    IN [i \in 1..Len(report.printed) |-> report.printed[i][1]]
         = [i \in 1..(K + r) |-> desc_histogram[i][1]]

C5_StopAfterFullBatch ==
  /\ stopping_condition =>
       /\ streamLength[0] >= THRESHOLD
       /\ streamLength[0] = Count(received)
       /\ streamLength[1] = Count(Admitted)
       /\ histogram = [x \in Support(Admitted) |-> Admitted[x]]
       /\ \A j \in Rows : \A c \in Cols : sketch[j][c] = SignedSum(j, c)
  /\ mainPc # "wait" => stopping_condition

\* the statistics ran after a batch that crossed the threshold by more than it needed
C5_Witness ==
  /\ mainPc = "done"
  /\ stopping_condition
  /\ streamLength[0] > THRESHOLD
  /\ 0 < streamLength[1] /\ streamLength[1] < streamLength[0]

\* C6 as stated: no step of process_batch lowers the absolute value of a histogram
\* entry, of a count or of a sketch cell
C6_MagnitudesNeverDecrease ==
  [][/\ \A key \in DOMAIN histogram :
          key \in DOMAIN histogram' /\ histogram'[key] >= histogram[key]
     /\ streamLength'[0] >= streamLength[0]
     /\ streamLength'[1] >= streamLength[1]
     /\ \A j \in Rows : \A c \in Cols : Abs(sketch'[j][c]) >= Abs(sketch[j][c])]_vars

\* C6 amended: no step lowers a histogram entry or a count; a sketch cell moves, up or
\* down, by no more than the number of items the step admits
C6_CountsNeverDecrease ==
  [][/\ \A key \in DOMAIN histogram :
          key \in DOMAIN histogram' /\ histogram'[key] >= histogram[key]
     /\ streamLength'[0] >= streamLength[0]
     /\ streamLength'[1] >= streamLength[1]
     /\ \A j \in Rows : \A c \in Cols :
          Abs(sketch'[j][c] - sketch[j][c]) <= streamLength'[1] - streamLength[1]]_vars

\* the call in progress admitted one item after others and brought the cell that the
\* item maps to in some row, which held 1 or -1, down to 0
C6_Witness ==
  /\ pc = "signal"
  /\ Count(filtered_batch(batch)) = 1
  /\ streamLength[1] >= 2
  /\ \E x \in Support(filtered_batch(batch)) :
       \E j \in Rows : sketch[j][h_hash(x, a[j], b[j])] = 0

\* C7: the statistics read the ranking only at positions 0..n-1, and with K above n
\* they report the n items or end in the error "insufficient distinct items"
C7_RankingReadsInRange ==
  mainPc = "done" =>
    /\ report.reads \subseteq 0..(Len(desc_histogram) - 1)
    /\ report.outcome \in {"ok", "InsufficientDistinctItems"}
    /\ (report.K > Len(desc_histogram) /\ report.outcome = "ok")
         => Len(report.printed) = Len(desc_histogram)

\* C8 as stated: with D = 1 and W = 1 the estimate of every item is the signed sum of
\* all the updates, the value of the one cell
C8_EstimateIsTheCell ==
  (mainPc = "done" /\ D = 1 /\ W = 1) =>
    \A u \in DOMAIN approx_histogram :
      /\ approx_histogram[u] = 2 * SignedSum(0, 0)
      /\ approx_histogram[u] = 2 * sketch[0][0]

\* C8 amended: with D = 1 and W = 1 the estimate of every item is g_hash of the item
\* times the signed sum of all the updates, the value of the one cell
C8_EstimateIsTheSignedCell ==
  (mainPc = "done" /\ D = 1 /\ W = 1) =>
    \A u \in DOMAIN approx_histogram :
      /\ approx_histogram[u] = 2 * g_hash(u, a[1], b[1]) * SignedSum(0, 0)
      /\ approx_histogram[u] = 2 * g_hash(u, a[1], b[1]) * sketch[0][0]

\* an item of sign -1 was estimated from a cell that is not 0
C8_Witness ==
  /\ mainPc = "done" /\ D = 1 /\ W = 1
  /\ sketch[0][0] # 0
  /\ \E u \in DOMAIN approx_histogram : g_hash(u, a[1], b[1]) = -1

\* C9: the stop signal is eventually set and the main thread's wait returns; the
\* signal is set by the first batch that brings streamLength[0] to the threshold, a
\* batch that started below it, and by no other
C9_StopsAtFirstCrossing ==
  /\ <>(stopping_condition /\ mainPc # "wait")
  /\ [](stopping_condition => THRESHOLD <= streamLength[0])
  /\ [](pc # "idle" => streamLength[0] < THRESHOLD + Count(batch))
  /\ []((pc = "idle" /\ streamLength[0] >= THRESHOLD) => stopping_condition)
  /\ [][stopping_condition' # stopping_condition
          => (pc = "signal" /\ streamLength[0] >= THRESHOLD /\ stopping_condition')]_vars

\* the wait returned after a batch that went past the threshold
C9_Witness ==
  /\ stopping_condition
  /\ mainPc = "stop"
  /\ streamLength[0] > THRESHOLD

\* C10: after every completed call totalAdmitted is the sum of the histogram's counts,
\* every key lies in [left, right] with a count of at least 1, and totalAdmitted is at
\* most totalSeen
C10_HistogramSumsToAdmitted ==
  pc = "idle" =>
    /\ streamLength[1] = SumUpTo([x \in Universe |->
                                    IF x \in DOMAIN histogram THEN histogram[x] ELSE 0],
                                 MaxItem)
    /\ \A key \in DOMAIN histogram :
         left <= key /\ key <= right /\ histogram[key] >= 1
    /\ streamLength[1] <= streamLength[0]

\* some items were filtered out and some item was counted twice
C10_Witness ==
  /\ pc = "idle"
  /\ streamLength[1] < streamLength[0]
  /\ \E key \in DOMAIN histogram : histogram[key] >= 2
  /\ Cardinality(DOMAIN histogram) >= 2

====
